---- MODULE Spec2Model ----
(***************************************************************************)
(* The publish/subscribe dispatch engine of the appsec helper              *)
(* (src/src/helper/engine.cpp): engine::subscribe, engine::context::publish *)
(* and engine::context::~context.                                          *)
(*                                                                         *)
(* One Engine, a fixed set of subscribers and of Contexts.  A publish is   *)
(* one atomic step (publish calls on one Context are sequential); the      *)
(* outcome of every Listener.call and of every get_listener() it makes is  *)
(* an input of the step.                                                   *)
(***************************************************************************)
EXTENDS Integers, Sequences, FiniteSets, TLC

(* ---- bounds ---------------------------------------------------------- *)
\* total number of engine.subscribe calls
MaxSubscribes == 2
\* total number of context.publish calls (= parameters handed to the engine)
MaxPublishes == 2

(* ---- the fixed universe ---------------------------------------------- *)
\* subscriber identities (the subscriber::ptr values)
Subs == {"s1", "s2"}
\* the Contexts created from the one Engine, named in order of creation
Contexts == {"c1", "c2"}
\* the addresses some subscriber declares
Addresses == {"a", "b", "c"}

\* subscriber::get_subscriptions(): both subscribers declare two addresses
\* and share one of them.
GetSubscriptions(s) == IF s = "s1" THEN {"a", "b"} ELSE {"b", "c"}

\* result: a severity (result::value) and the opaque data of the listener
\* that produced it.  DefaultResult is the default-constructed result.
Severities == 0 .. 2
DefaultResult == [value |-> 0, data |-> "none"]
\* what one Listener.call does: throws an exception (`what` names its
\* type; every exception of the helper derives from std::exception), or
\* returns a result of some severity
Throws == [threw |-> TRUE, what |-> "exception", value |-> 0]
TimesOut == [threw |-> TRUE, what |-> "timeout_error", value |-> 0]
Returns(v) == [threw |-> FALSE, what |-> "none", value |-> v]
CallOutcomes == {Throws} \cup { Returns(v) : v \in Severities }
\* the outcomes of the calls when evaluation may also run out of its budget
TimeoutOutcomes == {TimesOut, Throws, Returns(0), Returns(2)}

\* parameter trees handed to publish: a kind and the sequence of top-level
\* entries, each with its key and the keys nested below it.
Entry(k, n) == [key |-> k, nested |-> n]
Map(es) == [kind |-> "map", entries |-> es]
Batches ==
    { [kind |-> "array", entries |-> << Entry("a", {"b"}) >>],
      Map(<< Entry("a", {}) >>),
      Map(<< Entry("a", {}), Entry("b", {}) >>),
      Map(<< Entry("z", {"a", "b"}), Entry("c", {"a"}) >>) }

\* a Listener object is named by the get_listener() call that made it: the
\* Context whose publish made the call, the subscriber, and the ordinal of
\* the call.  NoListener stands for "no entry" in a Context's cache.
Listener(c, s, n) == [ctx |-> c, sub |-> s, n |-> n]
NoListener == Listener("none", "none", 0)

(* ---- helpers ---------------------------------------------------------- *)
Range(f) == { f[i] : i \in DOMAIN f }

\* all orders in which the elements of S can be laid out
Perms(S) ==
    { q \in [1 .. Cardinality(S) -> S] : \A x \in S : \E i \in DOMAIN q : q[i] = x }

\* number of occurrences of x in the sequence q
Count(q, x) == Cardinality({ i \in DOMAIN q : q[i] = x })

VARIABLES
    ptrOrder,        \* the subscribers in increasing subscriber::ptr order
    subscriptions_,  \* engine::subscriptions_: address -> vector of subscribers
    subscribed,      \* how often each subscriber was passed to subscribe
    ctxState,        \* per Context: "unborn", "live" or "destroyed"
    prev_published_params_,  \* per Context: the retained parameters (handles)
    listeners_,      \* per Context: subscriber -> its cached Listener
    heap,            \* per parameter handle: its content and how often freed
    handed,          \* per parameter handle: what was handed to publish, and where
    glCalls,         \* per Context and subscriber: get_listener invocations
    glFails,         \* per Context and subscriber: get_listener failures
    callTargets,     \* per Context and subscriber: the Listeners ever called
    pub              \* the record of the most recent publish call

\* the state of the WAF subscriber (waf::instance and its listeners)
VARIABLES
    snapshots,       \* per ruleset handle: the ruleset and its rule data
    instances,       \* the waf::instance objects made so far
    wafListeners,    \* the listeners made by waf::instance::get_listener
    wafOp            \* the record of the most recent operation on the WAF

wafVars == << snapshots, instances, wafListeners, wafOp >>

\* the state of the embedded PHP runtime that zai_sapi starts and stops
VARIABLES
    zai,             \* what is started: SAPI, INI entries, module, request
    zsOp,            \* the record of the most recent zai_sapi_* call
    zsCalls          \* number of zai_sapi_* calls made so far

sapiVars == << zai, zsOp, zsCalls >>

\* nothing started, zai_module.ini_entries == NULL
Stopped ==
    [sapi_started |-> FALSE, ini_entries |-> "NULL",
     module_started |-> FALSE, request_started |-> FALSE]

\* zsOp before any call
NoSapiOp == [op |-> "none", ret |-> TRUE, stages |-> <<>>, before |-> Stopped]

engineVars == << ptrOrder, subscriptions_, subscribed, ctxState,
                 prev_published_params_, listeners_, heap, handed,
                 glCalls, glFails, callTargets, pub >>

vars == << ptrOrder, subscriptions_, subscribed, ctxState,
           prev_published_params_, listeners_, heap, handed,
           glCalls, glFails, callTargets, pub,
           snapshots, instances, wafListeners, wafOp,
           zai, zsOp, zsCalls >>

\* an event nothing was added to
EmptyEvent == [data |-> <<>>, actions |-> <<>>]

\* wafOp before any operation on the WAF
NoWafOp ==
    [op |-> "none", instance |-> 0, listener |-> 0, created |-> 0,
     input |-> [valid |-> FALSE, leaves |-> <<>>],
     doc |-> [keys |-> {}, rules_data |-> {}], outcome |-> "none",
     event |-> EmptyEvent]

EmptyCache == [s \in Subs |-> NoListener]

\* pub before any publish call was made
NoPublish ==
    [ctx |-> "none", param |-> 0, outcome |-> "none", returned |-> {},
     sub_set |-> {}, calls |-> <<>>, gl |-> <<>>, glFailed |-> {},
     cacheBefore |-> EmptyCache, cacheAfter |-> EmptyCache]

Init ==
    /\ ptrOrder \in Perms(Subs)
    /\ subscriptions_ = [a \in Addresses |-> <<>>]
    /\ subscribed = [s \in Subs |-> 0]
    /\ ctxState = [c \in Contexts |-> "unborn"]
    /\ prev_published_params_ = [c \in Contexts |-> <<>>]
    /\ listeners_ = [c \in Contexts |-> EmptyCache]
    /\ heap = <<>>
    /\ handed = <<>>
    /\ glCalls = [c \in Contexts |-> [s \in Subs |-> 0]]
    /\ glFails = [c \in Contexts |-> [s \in Subs |-> 0]]
    /\ callTargets = [c \in Contexts |-> [s \in Subs |-> {}]]
    /\ pub = NoPublish
    /\ snapshots = <<>>
    /\ instances = <<>>
    /\ wafListeners = <<>>
    /\ wafOp = NoWafOp
    /\ zai = Stopped
    /\ zsOp = NoSapiOp
    /\ zsCalls = 0

(* ---- engine::subscribe ------------------------------------------------- *)
\* a subscribe that registers a subscriber under an address once only
SubscribeTableOnce(t, sub) ==
    [a \in Addresses |->
        IF a \in GetSubscriptions(sub) /\ sub \notin Range(t[a])
        THEN Append(t[a], sub) ELSE t[a]]

\* the table after subscribe(sub): sub is appended to the vector of every
\* address it declares (an absent address is the empty vector)
SubscribeTable(t, sub) ==
    [a \in Addresses |->
        IF a \in GetSubscriptions(sub) THEN Append(t[a], sub) ELSE t[a]]

\* number of engine.subscribe calls made so far
RECURSIVE SumOver(_, _)
SumOver(f, S) ==
    IF S = {} THEN 0
    ELSE LET x == CHOOSE y \in S : TRUE IN f[x] + SumOver(f, S \ {x})

NumSubscribes == SumOver(subscribed, Subs)

\* Subscribers are registered at setup, before the first Context is created.
Subscribe(sub) ==
    /\ NumSubscribes < MaxSubscribes
    /\ \A c \in Contexts : ctxState[c] = "unborn"
    /\ subscriptions_' = SubscribeTable(subscriptions_, sub)
    /\ subscribed' = [subscribed EXCEPT ![sub] = @ + 1]
    /\ UNCHANGED << ptrOrder, ctxState, prev_published_params_, listeners_,
                    heap, handed, glCalls, glFails, callTargets,
                    pub >>
    /\ UNCHANGED wafVars
    /\ UNCHANGED sapiVars

(* ---- engine::create_context -------------------------------------------- *)
CreateContext(c) ==
    /\ ctxState[c] = "unborn"
    /\ c = "c2" => ctxState["c1"] # "unborn"
    /\ ctxState' = [ctxState EXCEPT ![c] = "live"]
    /\ UNCHANGED << ptrOrder, subscriptions_, subscribed,
                    prev_published_params_, listeners_, heap, handed,
                    glCalls, glFails, callTargets, pub >>
    /\ UNCHANGED wafVars
    /\ UNCHANGED sapiVars

(* ---- engine::context::~context ----------------------------------------- *)
\* a destructor that frees every parameter the engine was ever handed
FreeAllOfEngine(h, retained) ==
    [id \in DOMAIN h |-> [h[id] EXCEPT !.frees = @ + 1]]

\* the heap after param.free() on every element of the retained list
FreeAll(h, retained) ==
    [id \in DOMAIN h |-> [h[id] EXCEPT !.frees = @ + Count(retained, id)]]

Destroy(c) ==
    /\ ctxState[c] = "live"
    /\ heap' = FreeAll(heap, prev_published_params_[c])
    /\ ctxState' = [ctxState EXCEPT ![c] = "destroyed"]
    /\ prev_published_params_' = [prev_published_params_ EXCEPT ![c] = <<>>]
    /\ listeners_' = [listeners_ EXCEPT ![c] = EmptyCache]
    /\ UNCHANGED << ptrOrder, subscriptions_, subscribed, handed,
                    glCalls, glFails, callTargets, pub >>
    /\ UNCHANGED wafVars
    /\ UNCHANGED sapiVars

(* ---- engine::context::publish ------------------------------------------ *)
\* a retained list that keeps the latest parameter only
RetainLatestOnly(retained, id) == << id >>

\* prev_published_params_.push_back(std::move(param))
Retain(retained, id) == Append(retained, id)

\* a publish that retains the parameter only once its shape is accepted
RetainAfterCheck(retained, id, data) ==
    IF data.kind = "map" THEN Retain(retained, id) ELSE retained

\* the retained list when publish reaches `if (!data.is_map())`: the
\* parameter was pushed before, whatever its shape
RetainBeforeCheck(retained, id, data) == Retain(retained, id)

\* a shape check that takes every container for a map
IsMapLoose(data) == data.kind \in {"map", "array"}

\* data.is_map()
IsMap(data) == data.kind = "map"

\* subscriptions_.find(key): the vector under key, empty when there is none
Find(t, key) == IF key \in DOMAIN t THEN t[key] ELSE <<>>

\* a collection that also looks up the keys nested below the top level
SubSetDeep(t, data) ==
    UNION { Range(Find(t, k)) :
              k \in { data.entries[i].key : i \in DOMAIN data.entries }
                       \cup UNION { data.entries[i].nested : i \in DOMAIN data.entries } }

\* sub_set: every subscriber found under a top-level key of data
SubSet(t, data) ==
    UNION { Range(Find(t, data.entries[i].key)) : i \in DOMAIN data.entries }

RECURSIVE Concat(_, _, _)
\* the vectors found under the keys of data from entry i on, one after another
Concat(t, data, i) ==
    IF i > Len(data.entries) THEN <<>>
    ELSE Find(t, data.entries[i].key) \o Concat(t, data, i + 1)

\* a dispatch over a std::vector instead of a std::set: once per found entry
DispatchOrderNoDedup(t, data) == Concat(t, data, 1)

RECURSIVE FirstSeen(_, _)
\* the elements of q in the order of their first occurrence, seen being the
\* ones that occurred already
FirstSeen(q, seen) ==
    IF q = <<>> THEN <<>>
    ELSE IF Head(q) \in seen THEN FirstSeen(Tail(q), seen)
    ELSE << Head(q) >> \o FirstSeen(Tail(q), seen \cup {Head(q)})

\* a dispatch in the order in which the subscribers are found: the order of
\* the keys of the batch and of the subscribe calls
DispatchOrderFirstSeen(t, data) == FirstSeen(Concat(t, data, 1), {})

\* the order in which `for (const auto &sub : sub_set)` visits the
\* subscribers: a std::set iterates in increasing pointer order
DispatchOrder(t, data) == SelectSeq(ptrOrder, LAMBDA s : s \in SubSet(t, data))

\* a lookup that never finds the cached Listener
CacheMissAlways(cache, s) == TRUE

\* listeners_.find(sub) == listeners_.end()
CacheMiss(cache, s) == cache[s] = NoListener

\* an aggregation in which a later result of equal severity wins
AggregateLastOfEqual(res, call_res) ==
    IF call_res.value >= res.value THEN call_res ELSE res

\* an aggregation that keeps the latest result instead of the most severe
AggregateLast(res, call_res) == call_res

\* an aggregation that takes the first result whatever its severity
AggregateFirstCall(res, call_res) ==
    IF res.data = "none" \/ call_res.value > res.value THEN call_res ELSE res

\* if (call_res.value > res.value) res = std::move(call_res)
Aggregate(res, call_res) ==
    IF call_res.value > res.value THEN call_res ELSE res

\* a loop without the catch block: the failure of a call leaves publish
CallFailedPropagates(st, s, l, e) ==
    [st EXCEPT !.calls = Append(@, [sub |-> s, listener |-> l, out |-> e]),
               !.threw = TRUE]

\* a catch block that lets a timeout through to the caller of publish
CallFailedRethrowsTimeout(st, s, l, e) ==
    [st EXCEPT !.calls = Append(@, [sub |-> s, listener |-> l, out |-> e]),
               !.threw = (e.what = "timeout_error")]

\* a catch block that drops the Listener whose call failed from the cache
CallFailedEvicts(st, s, l, e) ==
    [st EXCEPT !.calls = Append(@, [sub |-> s, listener |-> l, out |-> e]),
               !.cache[s] = NoListener]

\* the catch block, entered with exception e: whatever std::exception it
\* is, the failure is logged and the loop goes on
CallFailed(st, s, l, e) ==
    [st EXCEPT !.calls = Append(@, [sub |-> s, listener |-> l, out |-> e])]

\* the try block when the call returns a result of severity v
CallReturned(st, s, l, v) ==
    [st EXCEPT !.calls = Append(@, [sub |-> s, listener |-> l, out |-> Returns(v)]),
               !.res = Aggregate(@, [value |-> v, data |-> s])]

\* sub->get_listener(): a new Listener, bound to the Context that asked
GetListener(st, s) == Listener(st.ctx, s, st.made[s] + 1)

\* an iteration whose try block also covers get_listener(): its failure is
\* logged and the loop goes on with the next subscriber
DispatchOneCatchesAll(st, s, o, ok) ==
    IF st.cache[s] = NoListener /\ ~ok
    THEN [st EXCEPT !.made[s] = @ + 1, !.gl = Append(@, s),
                    !.glFailed = @ \cup {s}]
    ELSE LET miss == st.cache[s] = NoListener
             l == IF miss THEN GetListener(st, s) ELSE st.cache[s]
             st1 == IF miss
                    THEN [st EXCEPT !.cache[s] = l, !.made[s] = @ + 1,
                                    !.gl = Append(@, s)]
                    ELSE st
         IN  IF o.threw THEN CallFailed(st1, s, l, o)
                        ELSE CallReturned(st1, s, l, o.value)

\* one iteration of the loop over sub_set, for subscriber s, whose
\* Listener.call ends as o and whose get_listener() succeeds iff ok
DispatchOne(st, s, o, ok) ==
    IF CacheMiss(st.cache, s) /\ ~ok
    THEN \* get_listener() throws outside the try block: publish is left
         [st EXCEPT !.made[s] = @ + 1, !.gl = Append(@, s),
                    !.glFailed = {s}, !.threw = TRUE]
    ELSE LET miss == CacheMiss(st.cache, s)
             l == IF miss THEN GetListener(st, s) ELSE st.cache[s]
             st1 == IF miss
                    THEN [st EXCEPT !.cache[s] = l, !.made[s] = @ + 1,
                                    !.gl = Append(@, s)]
                    ELSE st
         IN  IF o.threw THEN CallFailed(st1, s, l, o)
                        ELSE CallReturned(st1, s, l, o.value)

RECURSIVE DispatchFrom(_, _, _, _, _)
DispatchFrom(order, i, st, out, glok) ==
    IF i > Len(order) \/ st.threw
    THEN st
    ELSE DispatchFrom(order, i + 1,
                      DispatchOne(st, order[i], out[order[i]], glok[order[i]]),
                      out, glok)

\* the state of the loop before its first iteration (`result res;`)
DispatchStart(c) ==
    [ctx |-> c, cache |-> listeners_[c], made |-> glCalls[c],
     res |-> DefaultResult, calls |-> <<>>, gl |-> <<>>, glFailed |-> {},
     threw |-> FALSE]

\* a publish that checks the shape of the parameter after the dispatch
PublishRunLateCheck(c, p, out, glok) ==
    LET st == DispatchFrom(DispatchOrder(subscriptions_, p), 1,
                           DispatchStart(c), out, glok)
    IN  IF ~IsMap(p) THEN [st EXCEPT !.threw = TRUE] ELSE st

\* the whole of publish on Context c with parameter content p
PublishRun(c, p, out, glok) ==
    IF ~IsMap(p)
    THEN [DispatchStart(c) EXCEPT !.threw = TRUE]
    ELSE DispatchFrom(DispatchOrder(subscriptions_, p), 1, DispatchStart(c),
                      out, glok)

PublishOutcome(p, st) ==
    IF ~IsMap(p) THEN "invalid_object"
    ELSE IF st.threw THEN "exception" ELSE "returned"

\* the Listeners that the calls of one publish went to, per subscriber
Called(calls, s) ==
    { calls[i].listener : i \in { j \in DOMAIN calls : calls[j].sub = s } }

Publish(c, p, out, glok) ==
    /\ ctxState[c] = "live"
    /\ Len(heap) < MaxPublishes
    /\ \E st \in {PublishRun(c, p, out, glok)} :
       LET id == Len(heap) + 1
           outcome == PublishOutcome(p, st)
       IN  /\ TRUE
           /\ heap' = Append(heap, [content |-> p, frees |-> 0])
           /\ handed' = Append(handed, [ctx |-> c, content |-> p])
           /\ prev_published_params_' =
                  [prev_published_params_ EXCEPT ![c] =
                      RetainBeforeCheck(@, id, p)]
           /\ listeners_' = [listeners_ EXCEPT ![c] = st.cache]
           /\ glCalls' = [glCalls EXCEPT ![c] = st.made]
           /\ glFails' = [glFails EXCEPT ![c] =
                  [s \in Subs |-> @[s] + (IF s \in st.glFailed THEN 1 ELSE 0)]]
           /\ callTargets' = [callTargets EXCEPT ![c] =
                  [s \in Subs |-> @[s] \cup Called(st.calls, s)]]
           /\ pub' = [ctx |-> c, param |-> id, outcome |-> outcome,
                      returned |-> IF outcome = "returned" THEN {st.res} ELSE {},
                      sub_set |-> IF IsMap(p) THEN SubSet(subscriptions_, p)
                                              ELSE {},
                      calls |-> st.calls, gl |-> st.gl,
                      glFailed |-> st.glFailed,
                      cacheBefore |-> listeners_[c], cacheAfter |-> st.cache]
    /\ UNCHANGED << ptrOrder, subscriptions_, subscribed, ctxState >>
    /\ UNCHANGED wafVars
    /\ UNCHANGED sapiVars

\* The inputs of a publish: the parameter, and what the subscribers do that
\* its entries can reach.
Reachable(p) == SubSet(subscriptions_, p)

\* get_listener() as the subscriber contract describes it: it has no
\* failure mode
GetListenerSucceeds(p) == [s \in Reachable(p) |-> TRUE]

Next ==
    \/ \E sub \in Subs : Subscribe(sub)
    \/ \E c \in Contexts : CreateContext(c)
    \/ \E c \in Contexts : Destroy(c)
    \/ \E c \in Contexts, p \in Batches :
          \E out \in [Reachable(p) -> CallOutcomes] :
              Publish(c, p, out, GetListenerSucceeds(p))

Spec == Init /\ [][Next]_vars

\* The same engine with listeners whose evaluation may exceed its budget.
NextTimeout ==
    \/ \E sub \in Subs : Subscribe(sub)
    \/ \E c \in Contexts : CreateContext(c)
    \/ \E c \in Contexts : Destroy(c)
    \/ \E c \in Contexts, p \in Batches :
          \E out \in [Reachable(p) -> TimeoutOutcomes] :
              Publish(c, p, out, GetListenerSucceeds(p))

SpecTimeout == Init /\ [][NextTimeout]_vars

\* The same engine with subscribers whose get_listener() can throw.
GetListenerOutcomes == {Throws, Returns(1)}

NextGetListener ==
    \/ \E sub \in Subs : Subscribe(sub)
    \/ \E c \in Contexts : CreateContext(c)
    \/ \E c \in Contexts : Destroy(c)
    \/ \E c \in Contexts, p \in Batches :
          \E out \in [Reachable(p) -> GetListenerOutcomes],
             glok \in [Reachable(p) -> BOOLEAN] :
              Publish(c, p, out, glok)

SpecGetListener == Init /\ [][NextGetListener]_vars

\* The same engine fed with maps that hold the same keys in either order.
KeyOrderBatches ==
    { Map(<< Entry("a", {}), Entry("b", {}) >>),
      Map(<< Entry("b", {}), Entry("a", {}) >>) }

NextKeyOrder ==
    \/ \E sub \in Subs : Subscribe(sub)
    \/ \E c \in Contexts : CreateContext(c)
    \/ \E c \in Contexts : Destroy(c)
    \/ \E c \in Contexts, p \in KeyOrderBatches :
          \E out \in [Reachable(p) -> CallOutcomes] :
              Publish(c, p, out, GetListenerSucceeds(p))

SpecKeyOrder == Init /\ [][NextKeyOrder]_vars

(* ---- waf::instance, the subscriber of TEST(WafTest, ...) ---------------- *)
\* most waf::instance objects made by from_string and update together
MaxWafInstances == 2
\* most listeners made by waf::instance::get_listener
MaxWafListeners == 2

\* the placeholder an obfuscated value is serialized as
Redacted == "<Redacted>"

\* the strings published as values, and as keys below an address
Values == {"string 1", "string 3", "192.168.1.1"}

\* the strings among Values or the keys that a regular expression matches; an
\* expression that was not configured matches nothing
Language(regex) ==
    CASE regex = "^string.*" -> {"string 1", "string 3"}
      [] regex = ".*" -> Values
      [] regex = "password" -> {"password"}
      [] regex = "string 3" -> {"string 3"}
      [] OTHER -> {}

\* JSON values of an action's parameters
Number(n) == [json |-> "number", n |-> n, s |-> ""]
String(s) == [json |-> "string", n |-> 0, s |-> s]

Digit(d) == << "0", "1", "2", "3", "4", "5", "6", "7", "8", "9" >>[d + 1]
RECURSIVE Decimal(_)
\* the decimal digits of a natural number
Decimal(n) == IF n < 10 THEN Digit(n) ELSE Decimal(n \div 10) \o Digit(n % 10)

\* the string an action parameter is handed to the host as
Render(v) == IF v.json = "number" THEN Decimal(v.n) ELSE v.s

\* one entry of a rule-data list
DataEntry(id, value, expiration) ==
    [id |-> id, value |-> value, expiration |-> expiration]
\* the entry of the rulesets and of the update document of the tests
BlockedIp == DataEntry("blocked_ips", "192.168.1.1", "9999999999")
\* the same address with an expiration that has passed
ExpiredIp == DataEntry("blocked_ips", "192.168.1.1", "1")

Condition(operator, address, arg) ==
    [operator |-> operator, address |-> address, arg |-> arg]
ActionEntry(id, type, parameters) ==
    [id |-> id, type |-> type, parameters |-> parameters]

\* the parameter mapping without keys
NoParameters == [k \in {} |-> String("")]

IpRule(on_match, actions) ==
    [conditions |-> << Condition("ip_match", "http.client_ip", "blocked_ips") >>,
     on_match |-> on_match, actions |-> actions, rules_data |-> {BlockedIp}]

\* the rulesets of the tests, by name
RulesetOf(name) ==
    CASE name = "waf_rule" ->
           [conditions |-> << Condition("match_regex", "arg1", "^string.*"),
                              Condition("match_regex", "arg2", ".*") >>,
            on_match |-> <<>>, actions |-> <<>>, rules_data |-> {}]
      [] name = "waf_rule_with_data" ->
           [IpRule(<< "block" >>, <<>>) EXCEPT !.rules_data = {}]
      [] name = "custom_parameters" ->
           IpRule(<< "custom" >>,
               << ActionEntry("custom", "block_request",
                      [status_code |-> Number(123),
                       grpc_status_code |-> Number(321),
                       type |-> String("json"),
                       custom_param |-> String("foo")]) >>)
      [] name = "no_parameters" ->
           IpRule(<< "custom" >>,
               << ActionEntry("custom", "block_request", NoParameters) >>)
      [] name = "custom_type" ->
           IpRule(<< "custom" >>,
               << ActionEntry("custom", "custom_type",
                      [some |-> String("parameter")]) >>)
      [] name = "default_action" -> IpRule(<< "block" >>, <<>>)

\* one scalar of a published map: its address, the keys leading to it below
\* the address, and its value
Leaf(address, key_path, value) ==
    [address |-> address, key_path |-> key_path, value |-> value]
\* a parameter_view of a map, and the default-constructed one
View(leaves) == [valid |-> TRUE, leaves |-> leaves]
InvalidView == [valid |-> FALSE, leaves |-> <<>>]

\* the addresses a ruleset reacts to
Subscriptions(ruleset) ==
    { ruleset.conditions[i].address : i \in DOMAIN ruleset.conditions }

\* waf::instance::get_subscriptions
WafGetSubscriptions(i) ==
    Subscriptions(RulesetOf(snapshots[instances[i].snap].ruleset))

\* whether a rule-data entry has expired
Expired(e) == e.expiration = "1"
\* the values the rule-data list id holds that have not expired
Listed(rules_data, id) ==
    { e.value : e \in { x \in rules_data : x.id = id /\ ~Expired(x) } }

\* whether the condition matches the value
Satisfies(cond, value, rules_data) ==
    IF cond.operator = "ip_match"
    THEN value \in Listed(rules_data, cond.arg)
    ELSE value \in Language(cond.arg)

\* the positions of the scalars below the condition's address it matches
MatchesOf(cond, leaves, rules_data) ==
    { j \in DOMAIN leaves :
        /\ leaves[j].address = cond.address
        /\ Satisfies(cond, leaves[j].value, rules_data) }

\* a rule fires when all its conditions match the batch
Fires(ruleset, leaves, rules_data) ==
    \A i \in DOMAIN ruleset.conditions :
        MatchesOf(ruleset.conditions[i], leaves, rules_data) # {}

\* an obfuscation that asks for the key and the value to match
SensitiveBoth(leaf, key_regex, value_regex) ==
    /\ \E k \in Range(leaf.key_path) : k \in Language(key_regex)
    /\ leaf.value \in Language(value_regex)

\* whether the matched value is to be obfuscated: a key leading to it matches
\* the key expression, or the value matches the value expression
Sensitive(leaf, key_regex, value_regex) ==
    \/ \E k \in Range(leaf.key_path) : k \in Language(key_regex)
    \/ leaf.value \in Language(value_regex)

\* the record of one match as the event holds it
Serialize(leaf, key_regex, value_regex) ==
    [address |-> leaf.address, key_path |-> leaf.key_path,
     value |-> IF Sensitive(leaf, key_regex, value_regex)
               THEN Redacted ELSE leaf.value]

\* rule_matches of the event: one record for each condition, of the first
\* scalar the condition matches
RuleMatches(ruleset, leaves, rules_data, key_regex, value_regex) ==
    [i \in DOMAIN ruleset.conditions |->
        LET m == MatchesOf(ruleset.conditions[i], leaves, rules_data)
            j == CHOOSE x \in m : \A y \in m : x <= y
        IN  Serialize(leaves[j], key_regex, value_regex)]

\* the default parameters of the recognized action types
DefaultParameters(type) ==
    IF type = "block_request"
    THEN [status_code |-> "403", grpc_status_code |-> "10", type |-> "auto"]
    ELSE [k \in {} |-> ""]

\* a merge in which the defaults win over the declared parameters
MergeDefaultsWin(defaults, declared) ==
    [k \in DOMAIN defaults \cup DOMAIN declared |->
        IF k \in DOMAIN defaults THEN defaults[k] ELSE Render(declared[k])]

\* the parameters of an action: the declared ones over the defaults
Merge(defaults, declared) ==
    [k \in DOMAIN defaults \cup DOMAIN declared |->
        IF k \in DOMAIN declared THEN Render(declared[k]) ELSE defaults[k]]

\* dds::action_type of a declared action type
ActionType(type) == IF type = "block_request" THEN "block" ELSE "invalid"

\* the action an on_match identifier stands for: its entry in the action
\* table, the built-in "block" when it has none, else one of its own type
ResolveAction(ruleset, id) ==
    LET found == { j \in DOMAIN ruleset.actions : ruleset.actions[j].id = id }
        entry == IF found # {}
                 THEN ruleset.actions[CHOOSE x \in found :
                                         \A y \in found : x <= y]
                 ELSE IF id = "block"
                 THEN ActionEntry(id, "block_request", NoParameters)
                 ELSE ActionEntry(id, id, NoParameters)
    IN  [type |-> ActionType(entry.type),
         parameters |-> Merge(DefaultParameters(entry.type), entry.parameters)]

RECURSIVE DedupByType(_, _)
\* the first action of each type
DedupByType(as, types) ==
    IF as = <<>> THEN <<>>
    ELSE IF Head(as).type \in types THEN DedupByType(Tail(as), types)
    ELSE << Head(as) >> \o DedupByType(Tail(as), types \cup {Head(as).type})

\* actions that leave out the ones of a type that is not recognized
EventActionsRecognizedOnly(ruleset) ==
    SelectSeq(DedupByType([i \in DOMAIN ruleset.on_match |->
                              ResolveAction(ruleset, ruleset.on_match[i])], {}),
              LAMBDA a : a.type # "invalid")

\* the actions of the event of a firing rule
EventActions(ruleset) ==
    DedupByType([i \in DOMAIN ruleset.on_match |->
                    ResolveAction(ruleset, ruleset.on_match[i])], {})

\* whether the batch holds an address the ruleset reacts to
CaredPresent(ruleset, leaves) ==
    \E j \in DOMAIN leaves : leaves[j].address \in Subscriptions(ruleset)

\* a zero budget that is exhausted only when every address is present
CallTimesOutAllPresent(waf_timeout, ruleset, leaves, slow) ==
    /\ waf_timeout = "0"
    /\ \/ slow
       \/ Subscriptions(ruleset)
             \subseteq { leaves[j].address : j \in DOMAIN leaves }

\* whether the budget is exhausted before the evaluation completes: always
\* with a zero budget and something to evaluate, either way (slow) with a
\* zero budget and nothing to evaluate, never with the default budget
CallTimesOut(waf_timeout, ruleset, leaves, slow) ==
    /\ waf_timeout = "0"
    /\ slow \/ CaredPresent(ruleset, leaves)

\* what Listener.call(data, event) does on a listener of instance inst bound
\* to the snapshot snap
CallResult(inst, snap, input, slow) ==
    LET ruleset == RulesetOf(snap.ruleset) IN
    IF ~input.valid
    THEN [outcome |-> "invalid_object", event |-> EmptyEvent]
    ELSE IF CallTimesOut(inst.waf_timeout, ruleset, input.leaves, slow)
    THEN [outcome |-> "timeout_error", event |-> EmptyEvent]
    ELSE IF Fires(ruleset, input.leaves, snap.rules_data)
    THEN [outcome |-> "returned",
          event |-> [data |-> << [rule_matches |->
                                    RuleMatches(ruleset, input.leaves,
                                        snap.rules_data, inst.key_regex,
                                        inst.value_regex)] >>,
                     actions |-> EventActions(ruleset)]]
    ELSE [outcome |-> "returned", event |-> EmptyEvent]

\* waf::instance::from_string(rule, meta, metrics, waf_timeout_us,
\*                            key_regex, value_regex)
FromString(rule, waf_timeout, key_regex, value_regex) ==
    /\ Len(instances) < MaxWafInstances
    /\ LET snap == [ruleset |-> rule, rules_data |-> RulesetOf(rule).rules_data]
       IN  /\ snapshots' = Append(snapshots, snap)
           /\ instances' = Append(instances,
                  [snap |-> Len(snapshots) + 1, waf_timeout |-> waf_timeout,
                   key_regex |-> key_regex, value_regex |-> value_regex,
                   parent |-> 0, doc |-> [keys |-> {}, rules_data |-> {}],
                   built |-> snap])
    /\ wafOp' = [NoWafOp EXCEPT !.op = "from_string",
                                !.created = Len(instances) + 1,
                                !.outcome = "returned"]
    /\ UNCHANGED wafListeners
    /\ UNCHANGED engineVars
    /\ UNCHANGED sapiVars

\* waf::instance::get_listener
WafGetListener(i) ==
    /\ i \in DOMAIN instances
    /\ Len(wafListeners) < MaxWafListeners
    /\ wafListeners' = Append(wafListeners,
           [instance |-> i, snap |-> instances[i].snap,
            bound |-> snapshots[instances[i].snap]])
    /\ wafOp' = [NoWafOp EXCEPT !.op = "get_listener", !.instance = i,
                                !.listener = Len(wafListeners) + 1,
                                !.outcome = "returned"]
    /\ UNCHANGED << snapshots, instances >>
    /\ UNCHANGED engineVars
    /\ UNCHANGED sapiVars

\* waf::listener::call
ListenerCall(l, input, slow) ==
    /\ l \in DOMAIN wafListeners
    /\ \E r \in { CallResult(instances[wafListeners[l].instance],
                             snapshots[wafListeners[l].snap], input, slow) } :
          wafOp' = [NoWafOp EXCEPT !.op = "call",
                                   !.instance = wafListeners[l].instance,
                                   !.listener = l, !.input = input,
                                   !.outcome = r.outcome, !.event = r.event]
    /\ UNCHANGED << snapshots, instances, wafListeners >>
    /\ UNCHANGED engineVars
    /\ UNCHANGED sapiVars

\* an update document: its top-level keys and the entries of its rules_data
Doc(rules_data) == [keys |-> {"rules_data"}, rules_data |-> rules_data]
EmptyDoc == [keys |-> {}, rules_data |-> {}]

\* a merge that drops the document
MergedKeepsOld(rules_data, doc) == rules_data

\* rule data in which the lists the document names are replaced by the
\* document's
Merged(rules_data, doc) ==
    { e \in rules_data : e.id \notin { x.id : x \in doc.rules_data } }
        \cup doc.rules_data

\* an update that writes the new rule data into the snapshot it was given
UpdatedInPlace(snaps, h, doc) ==
    [snaps |-> [snaps EXCEPT ![h].rules_data = Merged(@, doc)], snap |-> h]

\* the snapshots after an update of the snapshot h, and the handle of the
\* new one: a clone of h with the rule data of the document merged in
Updated(snaps, h, doc) ==
    [snaps |-> Append(snaps, [snaps[h] EXCEPT !.rules_data = Merged(@, doc)]),
     snap |-> Len(snaps) + 1]

\* a validation that accepts every document
ValidDocAny(doc) == TRUE

\* whether the document has the shape update asks for
ValidDoc(doc) == "rules_data" \in doc.keys

\* waf::instance::update
Update(i, doc) ==
    /\ i \in DOMAIN instances
    /\ IF ~ValidDoc(doc)
       THEN /\ wafOp' = [NoWafOp EXCEPT !.op = "update", !.instance = i,
                                        !.doc = doc,
                                        !.outcome = "invalid_object"]
            /\ UNCHANGED << snapshots, instances >>
       ELSE /\ Len(instances) < MaxWafInstances
            /\ \E u \in { Updated(snapshots, instances[i].snap, doc) } :
                  /\ snapshots' = u.snaps
                  /\ instances' = Append(instances,
                         [instances[i] EXCEPT !.snap = u.snap, !.parent = i,
                                              !.doc = doc,
                                              !.built = u.snaps[u.snap]])
            /\ wafOp' = [NoWafOp EXCEPT !.op = "update", !.instance = i,
                                        !.doc = doc,
                                        !.created = Len(instances) + 1,
                                        !.outcome = "returned"]
    /\ UNCHANGED wafListeners
    /\ UNCHANGED engineVars
    /\ UNCHANGED sapiVars

\* the operations on a subscriber built from waf_rule_with_data
ClientIp == View(<< Leaf("http.client_ip", <<>>, "192.168.1.1") >>)
OtherIp == View(<< Leaf("http.client_ip", <<>>, "string 1") >>)
Docs == { EmptyDoc, Doc({BlockedIp}), Doc({ExpiredIp}) }

InitWaf == Init /\ ptrOrder = << "s1", "s2" >>

NextUpdate ==
    \/ FromString("waf_rule_with_data", "default_waf_timeout_us", "", "")
    \/ \E i \in 1 .. MaxWafInstances : WafGetListener(i)
    \/ \E l \in 1 .. MaxWafListeners, input \in {ClientIp, OtherIp} :
          ListenerCall(l, input, FALSE)
    \/ \E i \in 1 .. MaxWafInstances, doc \in Docs : Update(i, doc)

SpecUpdate == InitWaf /\ [][NextUpdate]_vars

\* the operations on one subscriber built from any of the rulesets, with any
\* budget and obfuscation
WafRules == { "waf_rule", "waf_rule_with_data", "custom_parameters",
              "no_parameters", "custom_type", "default_action" }
WafInputs ==
    { InvalidView, ClientIp,
      View(<< Leaf("arg1", <<>>, "string 1") >>),
      View(<< Leaf("arg1", <<>>, "string 1"),
              Leaf("arg2", <<>>, "string 3") >>),
      View(<< Leaf("arg1", << "password" >>, "string 1"),
              Leaf("arg2", <<>>, "string 3") >>),
      View(<< Leaf("arg1", << "password" >>, "string 1"),
              Leaf("arg2", <<>>, "string 1") >>) }

NextWaf ==
    \/ \E rule \in WafRules, waf_timeout \in {"0", "default_waf_timeout_us"},
          key_regex \in {"", "password"}, value_regex \in {"", "string 3"} :
          instances = <<>> /\ FromString(rule, waf_timeout, key_regex, value_regex)
    \/ \E i \in 1 .. MaxWafInstances : WafGetListener(i)
    \/ \E l \in 1 .. MaxWafListeners, input \in WafInputs, slow \in BOOLEAN :
          ListenerCall(l, input, slow)

SpecWaf == InitWaf /\ [][NextWaf]_vars

(* ---- zai_sapi (php5/zai_sapi.c) ---------------------------------------- *)
\* most zai_sapi_* calls
MaxSapiCalls == 5

\* a run of stages: the state, the stages that returned so far with what
\* they returned (TRUE for a void one), and what the last one returned
Ran(r, stage, ret, z) ==
    [zai |-> z, stages |-> Append(r.stages, [stage |-> stage, ret |-> ret]),
     ret |-> ret]
RunFrom(z) == [zai |-> z, stages |-> <<>>, ret |-> TRUE]

\* zai_sapi_sinit: sapi_startup, then the INI entries are allocated, which
\* succeeds iff iniOk
SInit(r, iniOk) ==
    IF ~iniOk
    THEN Ran(r, "sinit", FALSE, [r.zai EXCEPT !.sapi_started = TRUE])
    ELSE Ran(r, "sinit", TRUE, [r.zai EXCEPT !.sapi_started = TRUE,
                                             !.ini_entries = "allocated"])

\* zai_sapi_sshutdown: sapi_shutdown and zai_sapi_ini_entries_free
SShutdown(r) ==
    Ran(r, "sshutdown", TRUE, [r.zai EXCEPT !.sapi_started = FALSE,
                                            !.ini_entries = "NULL"])

\* zai_sapi_minit: php_module_startup, which succeeds iff modOk
MInit(r, modOk) ==
    IF ~modOk
    THEN LET s == SShutdown(r) IN Ran(s, "minit", FALSE, s.zai)
    ELSE Ran(r, "minit", TRUE, [r.zai EXCEPT !.module_started = TRUE])

\* zai_sapi_mshutdown: php_module_shutdown
MShutdown(r) ==
    Ran(r, "mshutdown", TRUE, [r.zai EXCEPT !.module_started = FALSE])

\* zai_sapi_rinit: php_request_startup, which succeeds iff reqOk
RInit(r, reqOk) ==
    IF ~reqOk
    THEN Ran(r, "rinit", FALSE, r.zai)
    ELSE Ran(r, "rinit", TRUE, [r.zai EXCEPT !.request_started = TRUE])

\* zai_sapi_rshutdown: php_request_shutdown
RShutdown(r) ==
    Ran(r, "rshutdown", TRUE, [r.zai EXCEPT !.request_started = FALSE])

\* a spinup that runs the three stages whatever they return
SpinupRunAll(z, iniOk, modOk, reqOk) ==
    LET a == SInit(RunFrom(z), iniOk)
        b == MInit(a, modOk)
        c == RInit(b, reqOk)
    IN  [c EXCEPT !.ret = a.ret /\ b.ret /\ c.ret]

\* zai_sapi_sinit() && zai_sapi_minit() && zai_sapi_rinit()
SpinupRun(z, iniOk, modOk, reqOk) ==
    LET a == SInit(RunFrom(z), iniOk)
    IN  IF ~a.ret THEN a
        ELSE LET b == MInit(a, modOk)
             IN  IF ~b.ret THEN b ELSE RInit(b, reqOk)

\* zai_sapi_spindown
SpindownRun(z) == SShutdown(MShutdown(RShutdown(RunFrom(z))))

\* a call of the zai_sapi function op that ran as r
SapiCall(op, r) ==
    /\ zsCalls < MaxSapiCalls
    /\ zai' = r.zai
    /\ zsOp' = [op |-> op, ret |-> r.ret, stages |-> r.stages, before |-> zai]
    /\ zsCalls' = zsCalls + 1
    /\ UNCHANGED engineVars
    /\ UNCHANGED wafVars

ZaiSapiSinit(iniOk) ==
    /\ ~zai.module_started /\ ~zai.request_started
    /\ SapiCall("sinit", SInit(RunFrom(zai), iniOk))

ZaiSapiMinit(modOk) ==
    /\ zai.sapi_started /\ zai.ini_entries = "allocated"
    /\ ~zai.module_started
    /\ SapiCall("minit", MInit(RunFrom(zai), modOk))

ZaiSapiRinit(reqOk) ==
    /\ zai.module_started /\ ~zai.request_started
    /\ SapiCall("rinit", RInit(RunFrom(zai), reqOk))

ZaiSapiRshutdown ==
    /\ zai.request_started
    /\ SapiCall("rshutdown", RShutdown(RunFrom(zai)))

ZaiSapiMshutdown ==
    /\ zai.module_started /\ ~zai.request_started
    /\ SapiCall("mshutdown", MShutdown(RunFrom(zai)))

ZaiSapiSshutdown ==
    /\ zai.sapi_started /\ ~zai.module_started
    /\ SapiCall("sshutdown", SShutdown(RunFrom(zai)))

ZaiSapiSpinup(iniOk, modOk, reqOk) ==
    /\ ~zai.request_started
    /\ SapiCall("spinup", SpinupRun(zai, iniOk, modOk, reqOk))

ZaiSapiSpindown ==
    /\ zai.request_started
    /\ SapiCall("spindown", SpindownRun(zai))

NextSapi ==
    \/ \E iniOk \in BOOLEAN : ZaiSapiSinit(iniOk)
    \/ \E modOk \in BOOLEAN : ZaiSapiMinit(modOk)
    \/ \E reqOk \in BOOLEAN : ZaiSapiRinit(reqOk)
    \/ ZaiSapiRshutdown
    \/ ZaiSapiMshutdown
    \/ ZaiSapiSshutdown
    \/ \E iniOk, modOk, reqOk \in BOOLEAN : ZaiSapiSpinup(iniOk, modOk, reqOk)
    \/ ZaiSapiSpindown

SpecSapi == InitWaf /\ [][NextSapi]_vars

(* ======================================================================= *)
(* Properties                                                              *)
(* ======================================================================= *)
\* a publish call has been made
Published == pub.outcome # "none"
\* the parameter of the most recent publish, as handed in
LastParam == handed[pub.param].content
\* the top-level keys of a parameter
TopKeys(p) == { p.entries[i].key : i \in DOMAIN p.entries }
\* how often the most recent publish called the listener of s
TimesCalled(s) ==
    Cardinality({ i \in DOMAIN pub.calls : pub.calls[i].sub = s })
\* the calls of the most recent publish that returned a result
Succeeded == { i \in DOMAIN pub.calls : ~pub.calls[i].out.threw }
\* the result that call i of the most recent publish returned
ResultOf(i) == [value |-> pub.calls[i].out.value, data |-> pub.calls[i].sub]
\* the result the most recent publish returned
Returned == CHOOSE r \in pub.returned : TRUE
\* the greatest element of a non-empty set of numbers
MaxOf(S) == CHOOSE x \in S : \A y \in S : y <= x

\* C1: a publish whose parameter is not a map fails with the invalid-input
\* error and returns no result, whatever the subscription table and the
\* state of the Context.
C1_NonMapFails ==
    (Published /\ LastParam.kind # "map")
        => (pub.outcome = "invalid_object" /\ pub.returned = {})

\* C1 witness: a non-map publish failed on a Context that already had a
\* cached Listener, with subscribers registered under a key of the parameter.
C1_Witness ==
    /\ Published
    /\ LastParam.kind # "map"
    /\ pub.outcome = "invalid_object"
    /\ pub.cacheBefore # EmptyCache
    /\ \E k \in TopKeys(LastParam) : Find(subscriptions_, k) # <<>>

\* C2: in a publish of a map, every subscriber of the deduplicated set is
\* called exactly once whichever of the calls throw, nobody else is called,
\* and publish returns a result.
C2_FaultIsolation ==
    (Published /\ LastParam.kind = "map")
        => /\ pub.outcome = "returned"
           /\ Cardinality(pub.returned) = 1
           /\ \A s \in Subs :
                 TimesCalled(s) = IF s \in pub.sub_set THEN 1 ELSE 0

\* C2 witness: the first listener call of a publish threw, the second one
\* was still made, and publish returned.
C2_Witness ==
    /\ pub.outcome = "returned"
    /\ Len(pub.calls) = 2
    /\ pub.calls[1].out.threw
    /\ ~pub.calls[2].out.threw

\* C3: the result publish returns has the highest severity among the results
\* of the calls that succeeded (the default severity when none did); it is
\* the default result or the result of a call that succeeded; and when
\* exactly one call returned a severity above the default, it is the result
\* of that call.
C3_Aggregation ==
    pub.outcome = "returned"
        => /\ Returned.value =
                  MaxOf({DefaultResult.value}
                            \cup { ResultOf(i).value : i \in Succeeded })
           /\ Returned = DefaultResult
                  \/ \E i \in Succeeded : Returned = ResultOf(i)
           /\ \A i \in Succeeded :
                 ( /\ ResultOf(i).value > DefaultResult.value
                   /\ \A j \in Succeeded \ {i} :
                         ResultOf(j).value = DefaultResult.value )
                     => Returned = ResultOf(i)

\* C3 witness: two calls succeeded with different severities above the
\* default, the first one the higher, and the higher one was returned.
C3_Witness ==
    /\ pub.outcome = "returned"
    /\ Succeeded = {1, 2}
    /\ ResultOf(2).value > DefaultResult.value
    /\ ResultOf(1).value > ResultOf(2).value
    /\ Returned = ResultOf(1)

\* the successful calls of the most recent publish whose result has the
\* highest severity among the successful ones
Top == { i \in Succeeded : \A j \in Succeeded : ResultOf(j).value <= ResultOf(i).value }
\* the first of them in the order of the calls
FirstTop == CHOOSE i \in Top : \A j \in Top : i <= j
\* the subscribers called by the most recent publish, in the order of the calls
CallOrder == [i \in DOMAIN pub.calls |-> pub.calls[i].sub]

\* C4 (as stated): whenever several successful results of one publish share
\* the highest severity, publish returns the one of the subscriber processed
\* first.
C4_Original ==
    (pub.outcome = "returned" /\ Cardinality(Top) >= 2)
        => Returned = ResultOf(FirstTop)

\* C4 (amended): when several successful results of one publish share the
\* highest severity and that severity is above the default one, publish
\* returns the one of the subscriber processed first, the subscribers being
\* processed in increasing pointer order; when the shared severity is the
\* default one, publish returns the default result.
C4_TieBreak ==
    (pub.outcome = "returned" /\ Cardinality(Top) >= 2)
        => /\ CallOrder = SelectSeq(ptrOrder, LAMBDA s : s \in pub.sub_set)
           /\ ResultOf(FirstTop).value > DefaultResult.value
                 => Returned = ResultOf(FirstTop)
           /\ ResultOf(FirstTop).value = DefaultResult.value
                 => Returned = DefaultResult

\* C4 witness: two calls returned the same severity above the default and
\* publish returned the result of the first.
C4_Witness ==
    /\ pub.outcome = "returned"
    /\ Top = {1, 2}
    /\ ResultOf(1).value > DefaultResult.value
    /\ Returned = ResultOf(1)
    /\ Returned # ResultOf(2)

\* subscriber s is relevant to parameter p: it was passed to subscribe and
\* declares an address that is a top-level key of p
Relevant(s, p) ==
    subscribed[s] > 0 /\ TopKeys(p) \cap GetSubscriptions(s) # {}
\* the keys nested below the top level of p
NestedKeys(p) == UNION { p.entries[i].nested : i \in DOMAIN p.entries }

\* C5: in a publish of a map, the listener of S is called if and only if S
\* was passed to subscribe and a top-level key of the map is an address S
\* declares; nested keys and keys without subscribers cause no dispatch.
C5_Routing ==
    (Published /\ LastParam.kind = "map")
        => \A s \in Subs : (TimesCalled(s) > 0) <=> Relevant(s, LastParam)

\* C5 witness: a registered subscriber was not called although an address it
\* declares is a nested key of the map, while another subscriber was called
\* for a top-level key next to a key nobody subscribed.
C5_Witness ==
    /\ pub.outcome = "returned"
    /\ \E s \in Subs :
          /\ subscribed[s] > 0
          /\ NestedKeys(LastParam) \cap GetSubscriptions(s) # {}
          /\ TimesCalled(s) = 0
    /\ \E s \in Subs : TimesCalled(s) = 1
    /\ \E k \in TopKeys(LastParam) : Find(subscriptions_, k) = <<>>

\* C6: in one Context get_listener is invoked at most once per subscriber
\* (once more after each invocation that failed), every call dispatched to
\* a subscriber in that Context goes to one and the same Listener, and no
\* Listener is called in two Contexts.
C6_Memoization ==
    /\ \A c \in Contexts, s \in Subs :
          /\ glCalls[c][s] <= 1 + glFails[c][s]
          /\ Cardinality(callTargets[c][s]) <= 1
    /\ \A c, d \in Contexts, s, t \in Subs :
          c # d => callTargets[c][s] \cap callTargets[d][t] = {}

\* C6 witness: a publish called the Listener that an earlier publish on the
\* same Context had put into the cache, without asking for a new one.
C6_Witness ==
    /\ pub.outcome = "returned"
    /\ \E i \in DOMAIN pub.calls :
          /\ pub.cacheBefore[pub.calls[i].sub] # NoListener
          /\ pub.calls[i].listener = pub.cacheBefore[pub.calls[i].sub]
          /\ glCalls[pub.ctx][pub.calls[i].sub] = 1
    /\ pub.gl = <<>>

\* the number of top-level entries of p whose key s declares
MatchingEntries(s, p) ==
    Cardinality({ i \in DOMAIN p.entries : p.entries[i].key \in GetSubscriptions(s) })

\* C7: a subscriber registered under several addresses whose keys all appear
\* in one published map is called exactly once in that publish.
C7_DedupPerPublish ==
    (Published /\ LastParam.kind = "map")
        => \A s \in Subs :
              (subscribed[s] > 0 /\ MatchingEntries(s, LastParam) >= 2)
                  => TimesCalled(s) = 1

\* C7 witness: a map with two keys that one subscriber declares was
\* published and that subscriber was called once.
C7_Witness ==
    /\ pub.outcome = "returned"
    /\ \E s \in Subs :
          /\ subscribed[s] = 1
          /\ MatchingEntries(s, LastParam) = 2
          /\ TimesCalled(s) = 1

\* the handles of the parameters handed to publish on Context c
HandedTo(c) == { id \in DOMAIN handed : handed[id].ctx = c }

\* C8 (state part): every parameter handed to publish on a live Context is
\* held once in that Context's retained list, has not been freed and has the
\* content it was handed in with; every parameter handed to a Context that
\* has been destroyed has been freed exactly once.
C8_BatchLifetime ==
    \A c \in Contexts :
        /\ ctxState[c] = "live" =>
              /\ Range(prev_published_params_[c]) = HandedTo(c)
              /\ \A id \in HandedTo(c) :
                    /\ Count(prev_published_params_[c], id) = 1
                    /\ heap[id].frees = 0
                    /\ heap[id].content = handed[id].content
        /\ ctxState[c] = "destroyed" =>
              \A id \in HandedTo(c) : heap[id].frees = 1

\* C8 witness: a Context that retained two parameters, the first of them
\* through the second publish, was destroyed and both were freed once.
C8_Witness ==
    \E c \in Contexts :
        /\ ctxState[c] = "destroyed"
        /\ Cardinality(HandedTo(c)) = 2
        /\ \A id \in HandedTo(c) : heap[id].frees = 1

\* C9: a publish that fails with the invalid-input error has called no
\* get_listener and no Listener.call and has left the cache of its Context
\* as it was.
C9_CheckBeforeDispatch ==
    pub.outcome = "invalid_object"
        => /\ pub.gl = <<>>
           /\ pub.calls = <<>>
           /\ pub.cacheAfter = pub.cacheBefore

\* C9 witness: a publish failed with the invalid-input error although its
\* parameter has an entry whose key has a subscriber without a cached
\* Listener.
C9_Witness ==
    /\ pub.outcome = "invalid_object"
    /\ \E s \in SubSet(subscriptions_, LastParam) :
          pub.cacheBefore[s] = NoListener

\* the addresses of the most recent map under which s is registered twice
TwiceUnder(s) ==
    { a \in TopKeys(LastParam) \cap Addresses : Count(subscriptions_[a], s) = 2 }

\* C10 (as stated): a subscriber passed to subscribe twice, hence registered
\* twice under an address, is dispatched to twice by a publish containing
\* that address.
C10_Original ==
    (Published /\ LastParam.kind = "map")
        => \A s \in Subs :
              (subscribed[s] = 2 /\ TwiceUnder(s) # {}) => TimesCalled(s) = 2

\* C10 (amended): a subscriber passed to subscribe twice is held twice in
\* the vector of each address it declares, but a publish containing such an
\* address dispatches to its listener once.
C10_DuplicateRegistration ==
    /\ \A s \in Subs, a \in Addresses :
          Count(subscriptions_[a], s) =
              IF a \in GetSubscriptions(s) THEN subscribed[s] ELSE 0
    /\ (Published /\ LastParam.kind = "map")
          => \A s \in Subs :
                (subscribed[s] = 2 /\ TwiceUnder(s) # {}) => TimesCalled(s) = 1

\* C10 witness: a subscriber registered twice under a key of the published
\* map was called once.
C10_Witness ==
    /\ pub.outcome = "returned"
    /\ \E s \in Subs :
          /\ subscribed[s] = 2
          /\ TwiceUnder(s) # {}
          /\ TimesCalled(s) = 1

\* the calls of the most recent publish that ended with the timeout error
TimedOut == { i \in DOMAIN pub.calls : pub.calls[i].out.what = "timeout_error" }
\* what the caller of the most recent publish can see of a timeout: publish
\* ended with an exception, or it returned something other than the default
\* result or the result of a call that succeeded
TimeoutReported ==
    \/ pub.outcome = "exception"
    \/ /\ pub.outcome = "returned"
       /\ Returned # DefaultResult
       /\ \A i \in Succeeded : Returned # ResultOf(i)

\* C11 (as stated): when a call of a publish ends with the timeout error,
\* the timeout is reported in the outcome publish gives its caller.
C11_Original == TimedOut # {} => TimeoutReported

\* C11 (amended): when a call of a publish ends with the timeout error, the
\* Context catches it like any other failure: publish returns the default
\* result or the result of a call that succeeded, nothing of the timeout
\* reaches the caller, and every subscriber of the set is still called once.
C11_TimeoutSuppressed ==
    TimedOut # {}
        => /\ pub.outcome = "returned"
           /\ ~TimeoutReported
           /\ \A s \in Subs :
                 TimesCalled(s) = IF s \in pub.sub_set THEN 1 ELSE 0
           /\ Returned.value =
                  MaxOf({DefaultResult.value}
                            \cup { ResultOf(i).value : i \in Succeeded })

\* C11 witness: the first call of a publish timed out, the second returned a
\* result above the default severity, and publish returned that result.
C11_Witness ==
    /\ pub.outcome = "returned"
    /\ Len(pub.calls) = 2
    /\ TimedOut = {1}
    /\ Succeeded = {2}
    /\ Returned = ResultOf(2)
    /\ Returned.value > DefaultResult.value

\* the registered subscribers relevant to p in increasing pointer order: a
\* function of the set of registered subscribers and of the set of keys
CanonicalOrder(p) == SelectSeq(ptrOrder, LAMBDA s : Relevant(s, p))
\* what the call to subscriber s did in the most recent publish
OutcomeOf(s) ==
    LET i == CHOOSE j \in DOMAIN pub.calls : pub.calls[j].sub = s
    IN  pub.calls[i].out
RECURSIVE MostSevereFirst(_, _, _)
\* the result kept after the subscribers order[i], order[i+1], ... : the
\* first in that order among the most severe ones above best
MostSevereFirst(order, i, best) ==
    IF i > Len(order) THEN best
    ELSE LET o == OutcomeOf(order[i])
         IN  MostSevereFirst(order, i + 1,
                 IF ~o.threw /\ o.value > best.value
                 THEN [value |-> o.value, data |-> order[i]] ELSE best)

\* C12: the subscribers are processed in increasing pointer order of the
\* relevant registered subscribers, and the result returned is the one this
\* order and the results of the listeners determine, whatever the order of
\* the keys in the map and the order of the subscribe calls.
C12_Determinism ==
    pub.outcome = "returned"
        => /\ CallOrder = CanonicalOrder(LastParam)
           /\ Returned = MostSevereFirst(CanonicalOrder(LastParam), 1,
                                         DefaultResult)

\* C12 witness: the subscriber that was registered last and is found under
\* the last key of the map comes first in pointer order; both subscribers
\* returned the same severity above the default, and its result won.
C12_Witness ==
    /\ pub.outcome = "returned"
    /\ Len(pub.calls) = 2
    /\ Top = {1, 2}
    /\ ResultOf(1).value > DefaultResult.value
    /\ Returned = ResultOf(1)
    /\ LastParam.entries[Len(LastParam.entries)].key
           \in GetSubscriptions(ptrOrder[1]) \ GetSubscriptions(ptrOrder[2])
    /\ subscriptions_["b"] = << ptrOrder[2], ptrOrder[1] >>

\* the Contexts whose retained list holds the parameter id
Owners(id) == { c \in Contexts : id \in Range(prev_published_params_[c]) }

\* C16: a parameter handed to publish is retained by no Context but the one
\* it was published on, so no two Contexts retain the same parameter; and as
\* long as that Context lives the parameter is not freed, whatever other
\* Contexts have published or have been destroyed.
C16_ExclusiveOwnership ==
    \A id \in DOMAIN handed :
        /\ Owners(id) \subseteq {handed[id].ctx}
        /\ ctxState[handed[id].ctx] = "live"
              => Owners(id) = {handed[id].ctx} /\ heap[id].frees = 0

\* C16 witness: two Contexts lived at the same time and each retained a
\* parameter; one of them has been destroyed and its parameter freed, the
\* other one still owns its own parameter, unfreed.
C16_Witness ==
    \E c, d \in Contexts, i, j \in DOMAIN handed :
        /\ handed[i].ctx = c /\ handed[j].ctx = d /\ c # d
        /\ i > j
        /\ ctxState[c] = "destroyed" /\ heap[i].frees = 1
        /\ ctxState[d] = "live" /\ Owners(j) = {d} /\ heap[j].frees = 0

\* whether a listener working on the snapshot content snap reports a match
\* for each of the inputs
Answers(snap) ==
    [input \in {ClientIp, OtherIp} |->
        Fires(RulesetOf(snap.ruleset), input.leaves, snap.rules_data)]

\* whether the most recent operation was a call that returned with a match
Matched == wafOp.op = "call" /\ wafOp.outcome = "returned"
              /\ wafOp.event.data # <<>>

\* C13: update never changes what the instance it is called on, or a
\* listener made before, works on: every instance and every listener answers
\* as its snapshot did when it was made, a call is answered from the snapshot
\* its listener was made on, and only the instance update returned works on
\* the rule data of the document.
C13_UpdateNeverMutates ==
    /\ \A i \in DOMAIN instances :
          /\ Answers(snapshots[instances[i].snap]) = Answers(instances[i].built)
          /\ instances[i].parent > 0 =>
                instances[i].built.rules_data =
                    Merged(instances[instances[i].parent].built.rules_data,
                           instances[i].doc)
    /\ \A l \in DOMAIN wafListeners :
          Answers(snapshots[wafListeners[l].snap]) = Answers(wafListeners[l].bound)
    /\ wafOp.op = "call" /\ wafOp.outcome = "returned"
          /\ wafOp.input \in {ClientIp, OtherIp}
          => Matched = Answers(wafListeners[wafOp.listener].bound)[wafOp.input]

\* C13 witness: a listener made from the old instance before an update that
\* lists the address was called after it and reported no match, while a
\* listener of the instance the update returned exists and matches it.
C13_Witness ==
    \E old, new \in DOMAIN wafListeners :
        /\ instances[wafListeners[new].instance].parent
              = wafListeners[old].instance
        /\ old < new
        /\ Answers(wafListeners[new].bound)[ClientIp]
        /\ wafOp.op = "call" /\ wafOp.listener = old
        /\ wafOp.input = ClientIp
        /\ wafOp.outcome = "returned" /\ ~Matched

\* the instance the listener of the most recent call was made from
Callee == instances[wafOp.instance]

\* C14: on a subscriber built from waf_rule_with_data a call with the
\* address yields no match; on the instance returned by its update with the
\* document that lists the address unexpired, the same call yields one match
\* record with the address and one action, of type block; and update keeps
\* the set of subscribed addresses.
C14_UpdateRoundTrip ==
    /\ wafOp.op = "call" /\ wafOp.outcome = "returned"
          /\ wafOp.input = ClientIp /\ Callee.parent = 0
          => wafOp.event = EmptyEvent
    /\ wafOp.op = "call" /\ wafOp.outcome = "returned"
          /\ wafOp.input = ClientIp /\ Callee.parent > 0
          /\ Callee.doc = Doc({BlockedIp})
          => /\ Len(wafOp.event.data) = 1
             /\ Len(wafOp.event.data[1].rule_matches) = 1
             /\ wafOp.event.data[1].rule_matches[1].value = "192.168.1.1"
             /\ Len(wafOp.event.actions) = 1
             /\ wafOp.event.actions[1].type = "block"
    /\ \A i \in DOMAIN instances :
          instances[i].parent > 0 =>
              WafGetSubscriptions(i) = WafGetSubscriptions(instances[i].parent)

\* C14 witness: the call on a listener of the instance the update returned
\* matched the address, and a listener of the first instance exists.
C14_Witness ==
    /\ Matched /\ wafOp.input = ClientIp
    /\ Callee.parent > 0 /\ instances[Callee.parent].parent = 0
    /\ Callee.doc = Doc({BlockedIp})
    /\ WafGetSubscriptions(wafOp.instance) = {"http.client_ip"}
    /\ wafOp.event.actions[1].parameters
          = [status_code |-> "403", grpc_status_code |-> "10", type |-> "auto"]

\* C15: an update with a document that has no rules_data fails with the
\* invalid-input error, returns no instance, and leaves the instances, their
\* snapshots and the listeners as they were.
C15_InvalidUpdate ==
    [][ wafOp'.op = "update" /\ "rules_data" \notin wafOp'.doc.keys
          => /\ wafOp'.outcome = "invalid_object"
             /\ wafOp'.created = 0
             /\ UNCHANGED << snapshots, instances, wafListeners >> ]_vars

\* C15 witness: an update of an instance that has a listener failed on the
\* empty document.
C15_Witness ==
    /\ wafOp.op = "update" /\ wafOp.doc = EmptyDoc
    /\ wafOp.outcome = "invalid_object"
    /\ \E l \in DOMAIN wafListeners : wafListeners[l].instance = wafOp.instance
    /\ Len(instances) = 1

\* the addresses of the batch of the most recent call
InputAddresses ==
    { wafOp.input.leaves[j].address : j \in DOMAIN wafOp.input.leaves }

\* C17: a call on a listener of a subscriber built with a zero budget, with
\* a map that holds at least one address of the subscriber, fails with the
\* timeout error and adds nothing to the event.
C17_ZeroTimeout ==
    wafOp.op = "call" /\ wafOp.input.valid /\ Callee.waf_timeout = "0"
        /\ InputAddresses \cap WafGetSubscriptions(wafOp.instance) # {}
        => wafOp.outcome = "timeout_error" /\ wafOp.event = EmptyEvent

\* C17 witness: the call with arg1 alone, one of the two addresses of
\* waf_rule, on a listener of a subscriber with a zero budget timed out.
C17_Witness ==
    /\ wafOp.op = "call" /\ Callee.waf_timeout = "0"
    /\ snapshots[Callee.snap].ruleset = "waf_rule"
    /\ InputAddresses = {"arg1"}
    /\ wafOp.outcome = "timeout_error"

\* the ruleset of the subscriber of the most recent call
CalleeRuleset == RulesetOf(snapshots[Callee.snap].ruleset)
\* the entries of its action table that its on_match identifier names
Declared ==
    { CalleeRuleset.actions[j] : j \in { x \in DOMAIN CalleeRuleset.actions :
          CalleeRuleset.actions[x].id = CalleeRuleset.on_match[1] } }
\* the parameters the action entry supplies, as strings; none without entry
Supplied ==
    IF Declared = {} THEN [k \in {} |-> ""]
    ELSE LET e == CHOOSE x \in Declared : TRUE
         IN  [k \in DOMAIN e.parameters |-> Render(e.parameters[k])]
\* whether on_match resolves to an action of the block type
ResolvesToBlock ==
    /\ CalleeRuleset.on_match # <<>>
    /\ \/ \E e \in Declared : e.type = "block_request"
       \/ Declared = {} /\ CalleeRuleset.on_match[1] = "block"

\* C18: the event of a firing rule whose on_match resolves to a block-type
\* action has one action, of type block; each key the entry supplies has the
\* supplied value, each other key among status_code, grpc_status_code and
\* type has its default 403, 10 and auto, and there are no other keys.
C18_ActionDefaults ==
    Matched /\ ResolvesToBlock
        => /\ Len(wafOp.event.actions) = 1
           /\ wafOp.event.actions[1].type = "block"
           /\ LET ps == wafOp.event.actions[1].parameters
                  ds == [status_code |-> "403", grpc_status_code |-> "10",
                         type |-> "auto"]
              IN  /\ DOMAIN ps = DOMAIN ds \cup DOMAIN Supplied
                  /\ \A k \in DOMAIN ps :
                        ps[k] = IF k \in DOMAIN Supplied THEN Supplied[k]
                                ELSE ds[k]

\* C18 witness: the block action of the ruleset that declares its own
\* parameters carries them, the numbers as strings, with the extra key.
C18_Witness ==
    /\ Matched
    /\ snapshots[Callee.snap].ruleset = "custom_parameters"
    /\ wafOp.event.actions[1].parameters
          = [status_code |-> "123", grpc_status_code |-> "321",
             type |-> "json", custom_param |-> "foo"]

\* C19: the event of a firing rule whose on_match names an entry of a type
\* that is not recognized has one action, of type invalid, with the
\* parameters the entry declares.
C19_UnknownActionType ==
    Matched /\ (\E e \in Declared : e.type # "block_request")
        => /\ Len(wafOp.event.actions) = 1
           /\ wafOp.event.actions[1].type = "invalid"
           /\ wafOp.event.actions[1].parameters = Supplied

\* C19 witness: the action of the ruleset with the entry of type custom_type.
C19_Witness ==
    /\ Matched
    /\ snapshots[Callee.snap].ruleset = "custom_type"
    /\ wafOp.event.actions
          = << [type |-> "invalid", parameters |-> [some |-> "parameter"]] >>

\* the match records of the event of the most recent call
Records == IF Matched THEN wafOp.event.data[1].rule_matches ELSE <<>>
\* the scalars of the batch the record r can stand for
Origins(r) ==
    { j \in DOMAIN wafOp.input.leaves :
        /\ wafOp.input.leaves[j].address = Records[r].address
        /\ wafOp.input.leaves[j].key_path = Records[r].key_path }
\* whether the key or the value of the scalar matches the configured pattern
KeyMatch(leaf) == \E k \in Range(leaf.key_path) : k \in Language(Callee.key_regex)
ValueMatch(leaf) == leaf.value \in Language(Callee.value_regex)
\* the values the event holds
EventValues == { Records[r].value : r \in DOMAIN Records }

C21_RetainedBeforeCheck ==
    /\ \A c \in Contexts :
          ctxState[c] = "live" =>
              Len(prev_published_params_[c]) = Cardinality(HandedTo(c))
    /\ pub.outcome = "invalid_object" =>
          IF ctxState[pub.ctx] = "live"
          THEN /\ Count(prev_published_params_[pub.ctx], pub.param) = 1
               /\ heap[pub.param].frees = 0
          ELSE heap[pub.param].frees = 1

\* C21 witness: the Context of a publish that failed with "not a map" was
\* destroyed, and the parameter of that publish was freed once.
C21_Witness ==
    /\ pub.outcome = "invalid_object"
    /\ ctxState[pub.ctx] = "destroyed"
    /\ heap[pub.param].content.kind # "map"
    /\ heap[pub.param].frees = 1

\* C22: a publish that returns, and in which no call returned a result of a
\* severity above the default one, returns the default-constructed Result.
C22_DefaultResult ==
    pub.outcome = "returned"
        /\ (\A i \in Succeeded : ResultOf(i).value <= DefaultResult.value)
        => Returned = DefaultResult

\* C22 witness: every call of the publish returned a result of the default
\* severity, and the Result returned is the default one, not the result of
\* the first call.
C22_Witness ==
    /\ pub.outcome = "returned"
    /\ Len(pub.calls) = 2 /\ Succeeded = {1, 2}
    /\ \A i \in Succeeded : ResultOf(i).value = DefaultResult.value
    /\ Returned = DefaultResult /\ Returned # ResultOf(1)

\* the calls of the most recent publish that failed
Failed == { i \in DOMAIN pub.calls : pub.calls[i].out.threw }

\* C23: the Listener of every call of a publish, failed or not, is in the
\* cache of the Context afterwards; a subscriber that had a Listener in the
\* cache before the publish keeps that one, is called on it and is not asked
\* for another.
C23_FailedListenerCached ==
    Published =>
        /\ \A i \in DOMAIN pub.calls :
              /\ pub.calls[i].listener # NoListener
              /\ pub.cacheAfter[pub.calls[i].sub] = pub.calls[i].listener
        /\ \A s \in Subs :
              pub.cacheBefore[s] # NoListener =>
                  /\ pub.cacheAfter[s] = pub.cacheBefore[s]
                  /\ s \notin Range(pub.gl)
                  /\ \A i \in DOMAIN pub.calls :
                        pub.calls[i].sub = s =>
                            pub.calls[i].listener = pub.cacheBefore[s]

\* C23 witness: the second publish on a Context called the Listener that was
\* in the cache, the call failed, the Listener is still in the cache and
\* get_listener was invoked once in all.
C23_Witness ==
    \E i \in Failed :
        LET s == pub.calls[i].sub
        IN  /\ pub.cacheBefore[s] # NoListener
            /\ pub.cacheAfter[s] = pub.calls[i].listener
            /\ ctxState[pub.ctx] = "live"
            /\ listeners_[pub.ctx][s] = pub.calls[i].listener
            /\ glCalls[pub.ctx][s] = 1
            /\ Len(prev_published_params_[pub.ctx]) = 2

\* the position of subscriber s in the pointer order
Position(s) == CHOOSE i \in DOMAIN ptrOrder : ptrOrder[i] = s

\* C24: a publish in which get_listener() of a subscriber failed ends with
\* that exception and returns nothing; that subscriber and the ones after it
\* in the iteration order were not called, the ones before it were; the
\* failing subscriber has no cache entry; the parameter is retained.
C24_GetListenerNotIsolated ==
    pub.glFailed # {} =>
        /\ pub.outcome = "exception" /\ pub.returned = {}
        /\ \E s \in pub.sub_set :
              /\ pub.glFailed = {s}
              /\ pub.cacheAfter[s] = NoListener
              /\ \A t \in pub.sub_set :
                    TimesCalled(t) = IF Position(t) < Position(s) THEN 1 ELSE 0
        /\ ctxState[pub.ctx] = "live" =>
              Count(prev_published_params_[pub.ctx], pub.param) = 1

\* C24 witness: get_listener() of the first of two relevant subscribers
\* failed; no Listener was called in that publish, the second subscriber
\* has no cache entry either, and the Context retains the parameter.
C24_Witness ==
    /\ pub.outcome = "exception"
    /\ Cardinality(pub.sub_set) = 2
    /\ pub.glFailed = {ptrOrder[1]}
    /\ pub.calls = <<>>
    /\ pub.cacheAfter = EmptyCache
    /\ ctxState[pub.ctx] = "live"
    /\ pub.param \in Range(prev_published_params_[pub.ctx])

\* the init stages the most recent zai_sapi call ran, in the order run
InitStages ==
    SelectSeq(zsOp.stages, LAMBDA x : x.stage \in {"sinit", "minit", "rinit"})
\* the names of a sequence of stages
StageNames(q) == [i \in DOMAIN q |-> q[i].stage]

\* C25: zai_sapi_spinup runs a prefix of sinit, minit, rinit; every stage but
\* the last one run succeeded, a stage that fails is the last one run, and
\* spinup returns true iff all three ran and succeeded; zai_sapi_spindown
\* runs rshutdown, mshutdown, sshutdown in that order.
C25_StageOrder ==
    /\ zsOp.op = "spinup" =>
          \E n \in 1 .. 3 :
              /\ StageNames(InitStages) = SubSeq(<< "sinit", "minit", "rinit" >>, 1, n)
              /\ \A i \in 1 .. n - 1 : InitStages[i].ret
              /\ n < 3 => ~InitStages[n].ret
              /\ zsOp.ret = (n = 3 /\ InitStages[n].ret)
    /\ zsOp.op = "spindown" =>
          StageNames(zsOp.stages) = << "rshutdown", "mshutdown", "sshutdown" >>

\* C25 witness: a spinup in which sinit succeeded and minit failed did not
\* run rinit and returned false.
C25_Witness ==
    /\ zsOp.op = "spinup" /\ ~zsOp.ret
    /\ Len(InitStages) = 2
    /\ InitStages[1].ret /\ ~InitStages[2].ret

\* C26 as stated: after a zai_sapi_spinup that returned false, nothing is
\* left started: not the SAPI, no INI entries, not the module, no request.
C26_FailedSpinupCleansUp ==
    zsOp.op = "spinup" /\ ~zsOp.ret => zai = Stopped

====
